---- MODULE Spec2Model ----
(***************************************************************************)
(* Model of src/main.py: the GitHub repository creation utility.           *)
(*                                                                         *)
(* Spec     the entry point (the __main__ block): one action per step of   *)
(*          the pipeline, each remote call answered by an arbitrary        *)
(*          response of the remote platform.                               *)
(* SpecOps  the methods of class Repo called one at a time on a            *)
(*          constructed object, with arbitrary arguments and responses.    *)
(*                                                                         *)
(* Python values: an optional string is <<>> (None) or <<s>>; an optional  *)
(* list is PyNone or PyList(l).                                            *)
(***************************************************************************)
EXTENDS Naturals, Sequences, FiniteSets, TLC

VARIABLES
    environ,      \* os.environ restricted to GITHUB_TOKEN: <<>> or <<token>>
    args,         \* argparse namespace: name, organization, description, defbranch
    pc,           \* position of the entry point
    repo,         \* the Repo object: <<>> before construction, else <<[org, repo_name]>>
    sent,         \* the HTTP requests issued so far, in order
    stdout,       \* the lines printed by the entry point and the methods
    last,         \* the last method call: operation, arguments, response, outcome
    exit_status   \* <<>> while running, else <<status>>

vars == <<environ, args, pc, repo, sent, stdout, last, exit_status>>

----------------------------------------------------------------------------
(* Bounds of the model *)

\* longest team/user list handed to protect_branch
MaxListLen == 1

----------------------------------------------------------------------------
(* Input domains *)

None == <<>>
Some(s) == <<s>>

Tokens == {None, Some("ghp_t0k")}
Names == {None, Some("demo"), Some("")}
Organizations == {None, Some("acme")}
Descriptions == {"", "my repo"}
Branches == {"main", "develop"}

PyNone == [t |-> "None", v |-> <<>>]
PyList(l) == [t |-> "list", v |-> l]

Members == {"admin-user"}
Lists == UNION {[1..n -> Members] : n \in 0..MaxListLen}
OptLists == {PyNone} \cup {PyList(l) : l \in Lists}

\* Responses of the remote platform: a status and a body.  A body is a JSON
\* object that may carry "html_url" and "message", or text that is not JSON.
Absent == "<absent>"
Resource == [json |-> TRUE, html_url |-> "https://github.com/acme/repo-demo", message |-> Absent]
ErrorBody(m) == [json |-> TRUE, html_url |-> Absent, message |-> m]
NotJson == [json |-> FALSE, html_url |-> Absent, message |-> Absent]
Responses ==
    { [status |-> 200, body |-> Resource],                       \* OK
      [status |-> 201, body |-> Resource],                       \* Created
      [status |-> 204, body |-> NotJson],                        \* No Content: empty body
      [status |-> 404, body |-> ErrorBody("Not Found")],
      [status |-> 422, body |-> ErrorBody("Validation Failed")],
      [status |-> 502, body |-> NotJson] }                       \* gateway error: HTML page

----------------------------------------------------------------------------
(* Helpers *)

\* str.format / f-string rendering of an optional string
Format(x) == IF x = None THEN "None" ELSE x[1]

\* class attribute Repo.auth_headers, computed once from the environment
auth_headers ==
    [Accept |-> "application/vnd.github+json",
     ContentType |-> "application/json",
     Authorization |-> "Bearer " \o Format(environ)]

\* Repo.__init__
Repo(org, repo_name) == [org |-> org, repo_name |-> "repo-" \o Format(repo_name)]

Request(method, url, data) ==
    [method |-> method, url |-> url, headers |-> auth_headers, data |-> data]

Raised == [outcome |-> "raised", printed |-> <<>>]
Printed(outcome, line) == [outcome |-> outcome, printed |-> <<line>>]

\* the else-branch shared by the methods:
\*   res_dict = json.loads(r.text); print(prefix + res_dict["message"])
\* json.loads raises on a body that is not JSON, the subscript raises on a
\* JSON object without "message".
ErrorBranch(prefix, body) ==
    IF body.json /\ body.message # Absent
    THEN Printed("error", prefix \o body.message)
    ELSE Raised

Result(op, key, request, resp, out, ret) ==
    [op |-> op, key |-> key, request |-> request, response |-> resp,
     outcome |-> out.outcome, printed |-> out.printed, ret |-> ret]

NoCall ==
    [op |-> "none", key |-> <<>>, request |-> <<>>, response |-> <<>>,
     outcome |-> "none", printed |-> <<>>, ret |-> None]

----------------------------------------------------------------------------
(* The methods of class Repo.  Each takes the object, its arguments and the *)
(* response the remote platform gives to the one request it issues.         *)

repo_creation_config(self, repo_description) ==
    [name |-> self.repo_name,
     description |-> repo_description,
     homepage |-> "https://github.com",
     private |-> TRUE,
     has_issues |-> TRUE,
     has_projects |-> TRUE,
     has_wiki |-> TRUE,
     auto_init |-> TRUE]

create_repo(self, repo_description, resp) ==
    LET config == repo_creation_config(self, repo_description)
        out == IF ~resp.body.json THEN Raised
               ELSE IF resp.status = 201
                    THEN IF resp.body.html_url # Absent
                         THEN Printed("success", "Created: " \o resp.body.html_url)
                         ELSE Raised
                    ELSE ErrorBranch("Create repo error Message: ", resp.body)
    IN  Result("create", <<repo_description>>,
               Request("POST", "https://api.github.com/user/repos", config),
               resp, out,
               IF out.outcome = "raised" THEN None ELSE Some(config.name))

rename_branch(self, old_name, new_name, resp) ==
    LET out == IF ~resp.body.json THEN Raised
               ELSE IF resp.status = 201
                    THEN Printed("success", "Default branch is now: " \o new_name)
                    ELSE ErrorBranch("Error Message: ", resp.body)
    IN  Result("rename", <<old_name, new_name>>,
               Request("POST",
                       "https://api.github.com/repos/" \o Format(self.org) \o "/"
                           \o self.repo_name \o "/branches/" \o old_name \o "/rename",
                       [new_name |-> new_name]),
               resp, out, None)

update_default_branch(self, default_branch, resp) ==
    LET out == IF ~resp.body.json THEN Raised
               ELSE IF resp.status = 200
                    THEN Printed("success", "Default branch is now: " \o default_branch)
                    ELSE ErrorBranch("Error Message: ", resp.body)
    IN  Result("update_default", <<default_branch>>,
               Request("PATCH",
                       "https://api.github.com/repos/" \o Format(self.org) \o "/"
                           \o self.repo_name,
                       [default_branch |-> default_branch]),
               resp, out, None)

add_repo_collaborator(self, username, permission, resp) ==
    LET out == IF resp.status = 200
               THEN Printed("success",
                            username \o " added to repo with permission: " \o permission)
               ELSE IF resp.status = 204
                    THEN Printed("already",
                                 username \o " already has " \o permission \o " permissions")
                    ELSE ErrorBranch("Error Message: ", resp.body)
    IN  Result("collaborator", <<username, permission>>,
               Request("PUT",
                       "https://api.github.com/repos/" \o Format(self.org) \o "/"
                           \o self.repo_name \o "/collaborators/" \o username,
                       [permission |-> permission]),
               resp, out, None)

add_repo_team(self, team_name, permission, resp) ==
    LET out == IF resp.status = 204
               THEN Printed("success", team_name \o " team added as " \o permission)
               ELSE ErrorBranch("Error Message: ", resp.body)
    IN  Result("team", <<team_name, permission>>,
               Request("PUT",
                       "https://api.github.com/orgs/" \o Format(self.org) \o "/teams/"
                           \o team_name \o "/repos/" \o Format(self.org) \o "/"
                           \o self.repo_name,
                       [permission |-> permission]),
               resp, out, None)

\* base64.b64encode of the fixed .gitignore content
\*   .terraform\n.terraform.tfstate\n*.tfstate*\n*.zip*\n.idea\n.secret.auto.tfvars
encoded_content ==
    "LnRlcnJhZm9ybQoudGVycmFmb3JtLnRmc3RhdGUKKi50ZnN0YXRlKgoqLnppcCoKLmlkZWEKLnNlY3JldC5hdXRvLnRmdmFycw=="

add_gitignore_to_repo(self, resp) ==
    LET out == IF resp.status = 201
               THEN Printed("success", "{} .gitignore file added {}")
               ELSE ErrorBranch("Error Message: ", resp.body)
    IN  Result("gitignore", <<>>,
               Request("PUT",
                       "https://api.github.com/repos/" \o Format(self.org) \o "/"
                           \o self.repo_name \o "/contents/.gitignore",
                       [message |-> ".gitignore file added", content |-> encoded_content]),
               resp, out, None)

\* OrEmpty with the None check left out (a fault C7 has to detect)
OrEmpty_CheckMissing(x) == x

\* "if x is None: x = []"
OrEmpty(x) == IF x = PyNone THEN PyList(<<>>) ELSE x

\* lists is the 6-tuple of the optional keyword arguments, in declaration order
branch_protection_config(lists) ==
    LET pr_dismissal_teams == OrEmpty(lists[1])
        pr_dismissal_users == OrEmpty(lists[2])
        pr_bypass_teams == OrEmpty(lists[3])
        pr_bypass_users == OrEmpty(lists[4])
        restriction_bypass_teams == OrEmpty(lists[5])
        restriction_bypass_users == OrEmpty(lists[6])
    IN  [required_status_checks |-> PyNone,
         enforce_admins |-> TRUE,
         required_pull_request_reviews |->
            [dismissal_restrictions |->
                [teams |-> pr_dismissal_teams, users |-> pr_dismissal_users],
             dismiss_stale_reviews |-> TRUE,
             required_approving_review_count |-> 1,
             require_last_push_approval |-> TRUE,
             bypass_pull_request_allowances |->
                [teams |-> pr_bypass_teams, users |-> pr_bypass_users]],
         restrictions |->
            [teams |-> restriction_bypass_teams, users |-> restriction_bypass_users],
         allow_force_pushes |-> FALSE,
         allow_deletions |-> FALSE]

protect_branch(self, branch_name, lists, resp) ==
    LET out == IF resp.status = 200
               THEN Printed("success", branch_name \o " branch is now protected")
               ELSE ErrorBranch("Error Message: ", resp.body)
    IN  Result("protect", <<branch_name, lists>>,
               Request("PUT",
                       "https://api.github.com/repos/" \o Format(self.org) \o "/"
                           \o self.repo_name \o "/branches/" \o branch_name
                           \o "/protection",
                       branch_protection_config(lists)),
               resp, out, None)

----------------------------------------------------------------------------
(* The entry point: the __main__ block *)

ArgSpace ==
    [name : Names, organization : Organizations,
     description : Descriptions, defbranch : Branches]

\* The module-level print of the parsed arguments (line 23) is left out of stdout.
Init ==
    /\ environ \in Tokens
    /\ args \in ArgSpace
    /\ pc = "start"
    /\ repo = <<>>
    /\ sent = <<>>
    /\ stdout = <<>>
    /\ last = NoCall
    /\ exit_status = <<>>

\* A method call made by the entry point: the request goes out, the lines are
\* printed; an exception the method raises is not caught anywhere, so the
\* interpreter ends the process with status 1.
MainCall(before, res, next) ==
    /\ sent' = Append(sent, res.request)
    /\ stdout' = stdout \o before \o res.printed
    /\ last' = res
    /\ IF res.outcome = "raised"
       THEN pc' = "exit" /\ exit_status' = <<1>>
       ELSE pc' = next /\ exit_status' = IF next = "exit" THEN <<0>> ELSE exit_status
    /\ UNCHANGED <<environ, args, repo>>

\* MainStart with the check of the name option left out (a fault C1 has to detect)
MainStart_NoNameCheck ==
    /\ pc = "start"
    /\ IF environ = None
       THEN /\ stdout' = Append(stdout, "GITHUB TOKEN not in environment")
            /\ pc' = "exit" /\ exit_status' = <<1>>
            /\ UNCHANGED repo
       ELSE /\ stdout' = Append(stdout, "Creating Repo")
            /\ repo' = <<Repo(args.organization, args.name)>>
            /\ pc' = "create"
            /\ UNCHANGED exit_status
    /\ UNCHANGED <<environ, args, sent, last>>

\* the precondition checks and the construction of the object
MainStart ==
    /\ pc = "start"
    /\ IF environ = None
       THEN /\ stdout' = Append(stdout, "GITHUB TOKEN not in environment")
            /\ pc' = "exit" /\ exit_status' = <<1>>
            /\ UNCHANGED repo
       ELSE IF args.name = None
       THEN /\ stdout' = Append(stdout, "Repo Name required")
            /\ pc' = "exit" /\ exit_status' = <<1>>
            /\ UNCHANGED repo
       ELSE /\ stdout' = Append(stdout, "Creating Repo")
            /\ repo' = <<Repo(args.organization, args.name)>>
            /\ pc' = "create"
            /\ UNCHANGED exit_status
    /\ UNCHANGED <<environ, args, sent, last>>

\* the --description option handed on instead (a fault C10 has to detect)
MainDescription_FromOption == args.description

\* the argument the entry point hands to create_repo
MainDescription == "This is a description of the repo"

MainCreate ==
    /\ pc = "create"
    /\ \E resp \in Responses :
          MainCall(<<>>, create_repo(repo[1], MainDescription, resp),
                   IF args.defbranch # "main" THEN "rename" ELSE "protect")

MainRename ==
    /\ pc = "rename"
    /\ \E resp \in Responses :
          MainCall(<<"Updating Default Branch">>,
                   rename_branch(repo[1], "main", args.defbranch, resp),
                   "protect")

\* the keyword arguments of the entry point's protect_branch call
MainProtectLists ==
    <<PyList(<<"admin-user">>), PyNone, PyList(<<"admin-user">>), PyNone,
      PyList(<<"admin-user">>), PyNone>>

MainProtect ==
    /\ pc = "protect"
    /\ \E resp \in Responses :
          MainCall(<<"Updating Collaborators", "Updating Default Branch Protection">>,
                   protect_branch(repo[1], args.defbranch, MainProtectLists, resp),
                   "gitignore")

MainGitignore ==
    /\ pc = "gitignore"
    /\ \E resp \in Responses :
          MainCall(<<>>, add_gitignore_to_repo(repo[1], resp), "exit")

Next ==
    \/ MainStart
    \/ MainCreate
    \/ MainRename
    \/ MainProtect
    \/ MainGitignore

Spec == Init /\ [][Next]_vars

----------------------------------------------------------------------------
(* The methods one at a time: an object is constructed, then any method is  *)
(* called with any arguments and answered by any response.  sent and stdout *)
(* hold the request and the lines of the call just made; last holds the     *)
(* call, and an exception it raises goes to the caller (outcome "raised").  *)

Usernames == {"admin-user"}
TeamNames == {"admin-user", "maintain-user"}
Permissions == {"admin", "maintain"}
ListArgs == [1..6 -> OptLists]

InitOps ==
    /\ environ \in Tokens \ {None}
    /\ args \in [name : Names \ {None}, organization : Organizations,
                 description : {""}, defbranch : {"main"}]
    /\ pc = "new"
    /\ repo = <<>>
    /\ sent = <<>>
    /\ stdout = <<>>
    /\ last = NoCall
    /\ exit_status = <<>>

Construct ==
    /\ pc = "new"
    /\ repo' = <<Repo(args.organization, args.name)>>
    /\ pc' = "ops"
    /\ UNCHANGED <<environ, args, sent, stdout, last, exit_status>>

Call(res, next) ==
    /\ sent' = <<res.request>>
    /\ stdout' = res.printed
    /\ last' = res
    /\ pc' = next
    /\ UNCHANGED <<environ, args, repo, exit_status>>

CallCreate ==
    /\ pc = "ops"
    /\ \E d \in Descriptions, resp \in Responses :
          Call(create_repo(repo[1], d, resp), "ops")

CallRename ==
    /\ pc = "ops"
    /\ \E old \in Branches, new \in Branches, resp \in Responses :
          Call(rename_branch(repo[1], old, new, resp), "ops")

CallUpdateDefault ==
    /\ pc = "ops"
    /\ \E b \in Branches, resp \in Responses :
          Call(update_default_branch(repo[1], b, resp), "ops")

CallAddCollaborator ==
    /\ pc = "ops"
    /\ \E u \in Usernames, p \in Permissions, resp \in Responses :
          Call(add_repo_collaborator(repo[1], u, p, resp), "ops")

CallAddTeam ==
    /\ pc = "ops"
    /\ \E t \in TeamNames, p \in Permissions, resp \in Responses :
          Call(add_repo_team(repo[1], t, p, resp), "ops")

CallGitignore ==
    /\ pc = "ops"
    /\ \E resp \in Responses :
          Call(add_gitignore_to_repo(repo[1], resp), "ops")

NoLists == [i \in 1..6 |-> PyNone]

CallProtect ==
    /\ pc = "ops"
    /\ \E b \in Branches, lists \in {NoLists, MainProtectLists}, resp \in Responses :
          Call(protect_branch(repo[1], b, lists, resp), "ops")

NextOps ==
    \/ Construct
    \/ CallCreate
    \/ CallRename
    \/ CallUpdateDefault
    \/ CallAddCollaborator
    \/ CallAddTeam
    \/ CallGitignore
    \/ CallProtect

SpecOps == InitOps /\ [][NextOps]_vars

----------------------------------------------------------------------------
(* protect_branch alone: one call on a constructed object, with every       *)
(* combination of omitted and supplied lists.                               *)

CallProtectAny ==
    /\ pc = "ops"
    /\ \E b \in Branches, lists \in ListArgs, resp \in Responses :
          Call(protect_branch(repo[1], b, lists, resp), "called")

NextProtect ==
    \/ Construct
    \/ CallProtectAny

SpecProtect == InitOps /\ [][NextProtect]_vars

----------------------------------------------------------------------------
(* Vocabulary of the properties.  The requests are described here from the  *)
(* inputs of the run (args, environ), independently of the method models.   *)

Terminated == pc = "exit"
Preconditions == environ # None /\ args.name # None
InPipeline == pc \in {"create", "rename", "protect", "gitignore", "exit"}

ApiRoot == "https://api.github.com"
RepoName == "repo-" \o args.name[1]
RepoPath == ApiRoot \o "/repos/" \o Format(args.organization) \o "/" \o RepoName

IsCreate(r) ==
    /\ r.method = "POST"
    /\ r.url = ApiRoot \o "/user/repos"
    /\ r.data.name = RepoName
IsRename(r, old, new) ==
    /\ r.method = "POST"
    /\ r.url = RepoPath \o "/branches/" \o old \o "/rename"
    /\ r.data = [new_name |-> new]
IsProtect(r, b) ==
    /\ r.method = "PUT"
    /\ r.url = RepoPath \o "/branches/" \o b \o "/protection"
IsGitignore(r) ==
    /\ r.method = "PUT"
    /\ r.url = RepoPath \o "/contents/.gitignore"

----------------------------------------------------------------------------
(* C1: with the credential absent, or with the credential present and the  *)
(* name option unset, the first step ends the process with status 1 and no  *)
(* request is issued at any point of the run.                               *)
C1_NoRequestExitOne ==
    (environ = None \/ args.name = None) =>
        /\ sent = <<>>
        /\ pc # "start" => (Terminated /\ exit_status = <<1>>)

C1_Witness ==
    /\ environ = None
    /\ args.name # None
    /\ Terminated
    /\ exit_status = <<1>>
    /\ sent = <<>>

(* C2: a terminated run with both preconditions met and a default branch B  *)
(* other than "main" has issued exactly the creation request, the rename   *)
(* request ("main" to B), the protection request for B and the ignore-file *)
(* write, in this order, and nothing else.                                  *)
C2_FourRequestsInOrder ==
    (Terminated /\ Preconditions /\ args.defbranch # "main") =>
        /\ Len(sent) = 4
        /\ IsCreate(sent[1])
        /\ IsRename(sent[2], "main", args.defbranch)
        /\ IsProtect(sent[3], args.defbranch)
        /\ IsGitignore(sent[4])

(* C3: a remote-call failure is not fatal: whatever the response to a step  *)
(* of the pipeline, the run goes on to the next step; only the last step    *)
(* (the ignore-file write) ends the run.                                    *)
C3_FailureNotFatal ==
    [][(pc \in {"create", "rename", "protect"}) => (pc' # "exit")]_vars

(* C4: with the credential present and the name option set, the process    *)
(* ends with exit status 0 whatever the responses of the remote calls.      *)
C4_ExitZero ==
    (Terminated /\ Preconditions) => exit_status = <<0>>

(* C5: with the default branch equal to "main", a terminated run with both  *)
(* preconditions met has issued exactly the creation request, the           *)
(* protection request for "main" and the ignore-file write, and no rename.  *)
C5_NoRenameForMain ==
    (Terminated /\ Preconditions /\ args.defbranch = "main") =>
        /\ Len(sent) = 3
        /\ IsCreate(sent[1])
        /\ IsProtect(sent[2], "main")
        /\ IsGitignore(sent[3])

(* C6: add_repo_collaborator reports by response status: 200 as newly      *)
(* added, 204 as already having the permission, every other status as an   *)
(* error with the remote message.                                           *)
C6_ThreeOutcomes ==
    last.op = "collaborator" =>
        LET username == last.key[1]
            permission == last.key[2]
            status == last.response.status
        IN  /\ status = 200 =>
                /\ last.outcome = "success"
                /\ stdout = <<username \o " added to repo with permission: " \o permission>>
            /\ status = 204 =>
                /\ last.outcome = "already"
                /\ stdout = <<username \o " already has " \o permission \o " permissions">>
            /\ status \notin {200, 204} =>
                /\ last.outcome = "error"
                /\ stdout = <<"Error Message: " \o last.response.body.message>>

(* C7: protect_branch submits, for each of its six optional lists, an empty *)
(* list when the list is omitted and the list itself when it is supplied,   *)
(* never null and never an absent field; the fixed policy constants are the *)
(* same in every request.                                                   *)
ListField(config, i) ==
    CASE i = 1 -> config.required_pull_request_reviews.dismissal_restrictions.teams
      [] i = 2 -> config.required_pull_request_reviews.dismissal_restrictions.users
      [] i = 3 -> config.required_pull_request_reviews.bypass_pull_request_allowances.teams
      [] i = 4 -> config.required_pull_request_reviews.bypass_pull_request_allowances.users
      [] i = 5 -> config.restrictions.teams
      [] i = 6 -> config.restrictions.users

C7_EmptyListsForOmitted ==
    last.op = "protect" =>
        LET lists == last.key[2]
            config == last.request.data
            reviews == config.required_pull_request_reviews
        IN  /\ sent = <<last.request>>
            /\ DOMAIN config = {"required_status_checks", "enforce_admins",
                                "required_pull_request_reviews", "restrictions",
                                "allow_force_pushes", "allow_deletions"}
            /\ DOMAIN reviews = {"dismissal_restrictions", "dismiss_stale_reviews",
                                 "required_approving_review_count",
                                 "require_last_push_approval",
                                 "bypass_pull_request_allowances"}
            /\ DOMAIN reviews.dismissal_restrictions = {"teams", "users"}
            /\ DOMAIN reviews.bypass_pull_request_allowances = {"teams", "users"}
            /\ DOMAIN config.restrictions = {"teams", "users"}
            /\ \A i \in 1..6 :
                  /\ ListField(config, i) # PyNone
                  /\ lists[i] = PyNone => ListField(config, i) = PyList(<<>>)
                  /\ lists[i] # PyNone => ListField(config, i) = lists[i]
            /\ config.required_status_checks = PyNone
            /\ config.enforce_admins = TRUE
            /\ reviews.required_approving_review_count = 1
            /\ reviews.dismiss_stale_reviews = TRUE
            /\ reviews.require_last_push_approval = TRUE
            /\ config.allow_force_pushes = FALSE
            /\ config.allow_deletions = FALSE

C7_Witness ==
    /\ last.op = "protect"
    /\ last.key[2][1] = PyNone
    /\ last.key[2][2] = PyList(<<"admin-user">>)
    /\ last.key[2][5] = PyList(<<>>)
    /\ last.key[2][6] = PyNone
    /\ ListField(sent[1].data, 1) = PyList(<<>>)
    /\ ListField(sent[1].data, 2) = PyList(<<"admin-user">>)

(* C8: the repository name computed at construction is "repo-" + N for the  *)
(* base name N; it is the name sent in the creation request and in the path *)
(* of every other request, and create_repo returns it whether the creation  *)
(* succeeded or failed.                                                     *)
C8_NameEverywhere ==
    (repo # <<>> /\ args.name # None) =>
        /\ repo[1].repo_name = RepoName
        /\ last.op = "create" =>
              /\ IsCreate(last.request)
              /\ last.ret = <<RepoName>>
        /\ last.op = "rename" =>
              IsRename(last.request, last.key[1], last.key[2])
        /\ last.op = "update_default" => last.request.url = RepoPath
        /\ last.op = "collaborator" =>
              last.request.url = RepoPath \o "/collaborators/" \o last.key[1]
        /\ last.op = "team" =>
              last.request.url = ApiRoot \o "/orgs/" \o Format(args.organization)
                  \o "/teams/" \o last.key[1] \o "/repos/"
                  \o Format(args.organization) \o "/" \o RepoName
        /\ last.op = "gitignore" => IsGitignore(last.request)
        /\ last.op = "protect" => IsProtect(last.request, last.key[1])

(* C9: each operation reports success on its own success status alone (201 *)
(* for create, rename and the ignore-file write, 200 for the default-branch *)
(* update and branch protection, 204 for add_repo_team) and reports every   *)
(* other status as an error with the remote message.                        *)
SuccessStatus(op) ==
    CASE op \in {"create", "rename", "gitignore"} -> 201
      [] op \in {"update_default", "protect"} -> 200
      [] op = "team" -> 204

C9_OwnSuccessStatusOnly ==
    last.op \in {"create", "rename", "gitignore", "update_default", "protect", "team"} =>
        IF last.response.status = SuccessStatus(last.op)
        THEN last.outcome = "success"
        ELSE /\ last.outcome = "error"
             /\ stdout = <<(IF last.op = "create" THEN "Create repo error Message: "
                                                  ELSE "Error Message: ")
                           \o last.response.body.message>>

====
